---- MODULE Spec2Model ----
(***************************************************************************)
(* A model of blitz-frost/http (src/http.go): the adapter that carries a   *)
(* msg exchange over HTTP POST.                                            *)
(*                                                                         *)
(*   Client / writer   the outbound side: Write buffers, Reader() posts    *)
(*                     the buffer and returns a reader over the response.  *)
(*   Handler / reader  the inbound side: ServeHTTP pairs the request body  *)
(*                     with the response writer and hands the pair to the  *)
(*                     registered msg.ExchangeReaderTaker.                 *)
(*                                                                         *)
(* The HTTP machinery (net/http) and the responder are the environment:    *)
(* the transport answers a POST with an error or a response of its         *)
(* choosing, and the responder calls Read, Writer, Write and Close on the  *)
(* pairing in any order before it returns.                                 *)
(***************************************************************************)
EXTENDS Integers, Sequences, FiniteSets, TLC

\* ------------------------------------------------------------------ bounds
MaxLen == 2
MaxWritten == 2
MaxCalls == 2

\* ------------------------------------------------------- program constants
StatusOK == 200
StatusBadRequest == 400
MethodPost == "POST"
ContentType == "application/octet-stream"
DefaultClient == "http.DefaultClient"

\* ------------------------------------------------------------------ values
\* two byte values tell the order of the bytes of a message
Byte == {1, 2}
Msgs(n) == UNION {[1..k -> Byte] : k \in 0..n}
\* the writers and the ServeHTTP calls the model follows
WriterIds == {1, 2}
ExIds == {1, 2}

\* the nil *http.Client, and a transport handle supplied by the caller
NilClient == "nil"
CustomClient == "custom"
\* the address the Handler of this model is served at, and another endpoint
HandlerAddr == "http://handler"
RemoteAddr == "http://remote"
Addrs == {HandlerAddr, RemoteAddr}

\* errors are values: a kind and the pieces of the message text
NoErr == [kind |-> "nil", msg |-> <<>>]
TransportErrs ==
    { [kind |-> "transport", msg |-> <<m>>] :
        m \in {"connection refused", "no such host"} }

\* resp.Status of a status code, as net/http renders the status line
StatusLine(code) ==
    CASE code = 200 -> "200 OK"
      [] code = 201 -> "201 Created"
      [] code = 400 -> "400 Bad Request"
      [] code = 404 -> "404 Not Found"
      [] OTHER -> "500 Internal Server Error"

Response(code, body) == [code |-> code, status |-> StatusLine(code), body |-> body]
NoResponse == [code |-> 0, status |-> "", body |-> <<>>]
\* what an endpoint other than the Handler may answer
RemoteCodes == {200, 201, 404}
RemoteBodies == {<<>>, <<1>>, <<2, 1>>}
RemoteResponses ==
    { Response(StatusOK, b) : b \in RemoteBodies }
        \cup { Response(c, <<1, 2>>) : c \in RemoteCodes \ {StatusOK} }

Drop(s, k) == SubSeq(s, k + 1, Len(s))
Take(s, k) == SubSeq(s, 1, k)

VARIABLES
    client,   \* the Client value last returned by ClientMake
    writers,  \* the outbound writers, by id
    posts,    \* the calls of http.Client.Post each writer made, in call order
    ert,      \* Handler.ert, the registered responder
    chain,    \* history: the argument and the result of the last ReaderChain
    exch,     \* the HTTP exchanges being served by Handler.ServeHTTP
    cors      \* the request being served by a handler HandlerCORS returned

vars == <<client, writers, posts, ert, chain, exch, cors>>

\* ------------------------------------------------------------ the outbound side

\* a ClientMake that keeps the cli it is given
ClientMakeOf_NoDefault(addr, cli) == [made |-> TRUE, addr |-> addr, cli |-> cli]

\* ClientMake: a nil cli is replaced by the default http client
ClientMakeOf(addr, cli) ==
    [made |-> TRUE, addr |-> addr,
     cli |-> IF cli = NilClient THEN DefaultClient ELSE cli]

\* given is history: the arguments of ClientMake
NoClient ==
    [made |-> FALSE, addr |-> "", cli |-> NilClient,
     given |-> [addr |-> "", cli |-> NilClient]]

NoResult == [reader |-> FALSE, err |-> NoErr]
NoOutcome == [err |-> NoErr, resp |-> NoResponse]
NoPeer == [served |-> FALSE, err |-> NoErr, eof |-> FALSE, read |-> <<>>,
           written |-> <<>>]

\* Client.Writer: &writer{cli: x}, the buffer is the zero bytes.Buffer.
\* hist, calls, out and peer are history: every byte ever passed to Write, the
\* number of Reader() calls made, what the transport answered the last of them,
\* what the Handler's responder did when it was the Handler that answered,
\* whether Close has been called, what it returned, how many bytes of the
\* buffer the transport has read in all, and the state of the body of the
\* response ("none" when Post returned no response)
NewWriter(c) ==
    [made |-> TRUE, cli |-> c, buf |-> <<>>, pc |-> "idle",
     ret |-> NoResult, stream |-> <<>>, got |-> <<>>, eof |-> FALSE,
     hist |-> <<>>, calls |-> 0, out |-> NoOutcome, peer |-> NoPeer,
     closed |-> FALSE, cerr |-> NoErr, nsent |-> 0, respBody |-> "none"]

NoWriter == [NewWriter(NoClient) EXCEPT !.made = FALSE]

\* a Write that puts b in front of what is buffered
WriterWrite_Prepend(x, b) == [x EXCEPT !.buf = b \o @]

\* a Write that drops what is written once Reader() has been called
WriterWrite_Inert(x, b) == IF x.calls > 0 THEN x ELSE [x EXCEPT !.buf = @ \o b]

\* writer.Write: x.buf.Write(b) appends b to the unread part of the buffer
WriterWrite(x, b) == [x EXCEPT !.buf = @ \o b]

\* a Post with another content type
PostRequest_TextPlain(x) ==
    [addr |-> x.cli.addr, cli |-> x.cli.cli, method |-> MethodPost,
     ctype |-> "text/plain", body |-> x.buf]

\* the arguments of x.cli.cli.Post(x.cli.addr, "application/octet-stream", &x.buf):
\* the request it builds carries what the buffer holds at the call
PostRequest(x) ==
    [addr |-> x.cli.addr, cli |-> x.cli.cli, method |-> MethodPost,
     ctype |-> ContentType, body |-> x.buf]

StatusError(resp) ==
    [kind |-> "status", msg |-> <<"http response status ", resp.status>>]

\* a Reader() that takes every 2xx status for success
ReaderResult_Any2xx(err, resp) ==
    IF err # NoErr THEN [reader |-> FALSE, err |-> err]
    ELSE IF resp.code < 200 \/ resp.code > 299
         THEN [reader |-> FALSE, err |-> StatusError(resp)]
    ELSE [reader |-> TRUE, err |-> NoErr]

\* a Reader() that wraps the transport's error in one of its own
ReaderResult_Wrapped(err, resp) ==
    IF err # NoErr
    THEN [reader |-> FALSE,
          err |-> [kind |-> "wrapped", msg |-> <<"http post: ">> \o err.msg]]
    ELSE IF resp.code # StatusOK THEN [reader |-> FALSE, err |-> StatusError(resp)]
    ELSE [reader |-> TRUE, err |-> NoErr]

\* what Reader() returns for what Post returned (resp, err)
ReaderResult(err, resp) ==
    IF err # NoErr THEN [reader |-> FALSE, err |-> err]
    ELSE IF resp.code # StatusOK THEN [reader |-> FALSE, err |-> StatusError(resp)]
    ELSE [reader |-> TRUE, err |-> NoErr]

\* a Reader() that closes resp.Body before it returns the reader
ReaderStream_Closed(res, resp) == <<>>

\* the stream the returned reader reads: io.ReaderOf(resp.Body)
ReaderStream(res, resp) == IF res.reader THEN resp.body ELSE <<>>

\* the model follows one Client value and the writers it produces
ClientMake(addr, cli) ==
    /\ ~client.made
    /\ client' = ClientMakeOf(addr, cli) @@ [given |-> [addr |-> addr, cli |-> cli]]
    /\ UNCHANGED <<writers, posts, ert, chain, exch, cors>>

Writer(w) ==
    /\ client.made
    /\ ~writers[w].made
    /\ \A v \in WriterIds : v < w => writers[v].made
    /\ writers' = [writers EXCEPT ![w] = NewWriter(client)]
    /\ UNCHANGED <<client, posts, ert, chain, exch, cors>>

RECURSIVE SumWritten(_)
SumWritten(S) ==
    IF S = {} THEN 0
    ELSE LET w == CHOOSE x \in S : TRUE IN
         Len(writers[w].hist) + SumWritten(S \ {w})
\* the bytes passed to Write so far, on all writers
TotalWritten == SumWritten(WriterIds)

Write(w, b) ==
    /\ writers[w].made
    /\ writers[w].pc = "idle"
    /\ TotalWritten + Len(b) <= MaxWritten
    /\ writers' = [writers EXCEPT ![w] = [WriterWrite(@, b) EXCEPT !.hist = @ \o b]]
    /\ UNCHANGED <<client, posts, ert, chain, exch, cors>>

\* a Close that empties the buffer
WriterClose_Reset(x) == [x |-> [x EXCEPT !.buf = <<>>], err |-> NoErr]

\* writer.Close: return nil. The writer after the call, and the error returned
WriterClose(x) == [x |-> x, err |-> NoErr]

Close(w) ==
    /\ writers[w].made
    /\ writers[w].pc = "idle"
    /\ writers' = [writers EXCEPT ![w] =
                      [WriterClose(@).x EXCEPT !.closed = TRUE,
                                               !.cerr = WriterClose(writers[w]).err]]
    /\ UNCHANGED <<client, posts, ert, chain, exch, cors>>

RECURSIVE SumCalls(_)
SumCalls(S) ==
    IF S = {} THEN 0
    ELSE LET w == CHOOSE x \in S : TRUE IN writers[w].calls + SumCalls(S \ {w})
\* the Reader() calls made so far, on all writers
TotalCalls == SumCalls(WriterIds)

\* Reader() up to the point where Post has issued the request and waits.
\* nw and sent are history: how many bytes had been passed to Write by then,
\* and how many the transport had read
Reader_Call(w) ==
    /\ writers[w].made
    /\ writers[w].pc = "idle"
    /\ TotalCalls < MaxCalls
    /\ posts' = [posts EXCEPT ![w] =
                    Append(@, PostRequest(writers[w]) @@
                                 [nw |-> Len(writers[w].hist),
                                  sent |-> writers[w].nsent])]
    /\ writers' = [writers EXCEPT ![w].pc = "posting",
                                  ![w].calls = @ + 1,
                                  ![w].ret = NoResult,
                                  ![w].out = NoOutcome,
                                  ![w].respBody = "none",
                                  ![w].peer = NoPeer,
                                  ![w].stream = <<>>,
                                  ![w].got = <<>>,
                                  ![w].eof = FALSE]
    /\ UNCHANGED <<client, ert, chain, exch, cors>>

\* a Reader() that closes the body of a response it rejects
ReaderBody_CloseRejected(err, resp) ==
    IF err # NoErr THEN "none"
    ELSE IF resp.code # StatusOK THEN "closed" ELSE "open"

\* the body of the response when Reader() returns: Post returns it open, and
\* no path of Reader() calls resp.Body.Close
ReaderBody(err, resp) == IF err # NoErr THEN "none" ELSE "open"

\* a Post that is given a copy of the buffered bytes
BufRead_Peek(buf, k) == buf

\* Post reads k bytes from &x.buf: bytes.Buffer.Read drains them
BufRead(buf, k) == Drop(buf, k)

\* Post returns (resp, err) having read k bytes of the buffer, and Reader()
\* returns
Reader_Done(w, err, resp, k, peer) ==
    LET res == ReaderResult(err, resp) IN
    writers' = [writers EXCEPT ![w].pc = "idle",
                               ![w].peer = peer,
                               ![w].buf = BufRead(@, k),
                               ![w].nsent = @ + k,
                               ![w].respBody = ReaderBody(err, resp),
                               ![w].ret = res,
                               ![w].stream = ReaderStream(res, resp),
                               ![w].out = [err |-> err, resp |-> resp]]

\* an endpoint other than the Handler answers
Reader_ReturnRemote(w) ==
    /\ writers[w].pc = "posting"
    /\ writers[w].cli.addr = RemoteAddr
    /\ \E r \in RemoteResponses, k \in 0..Len(writers[w].buf) :
           Reader_Done(w, NoErr, r, k, NoPeer)
    /\ UNCHANGED <<client, posts, ert, chain, exch, cors>>

\* Read on the reader Reader() returned, with a buffer of n bytes
Reader_Read(w, n) ==
    /\ writers[w].pc = "idle"
    /\ writers[w].ret.reader
    /\ ~writers[w].eof
    /\ LET m == IF n < Len(writers[w].stream) THEN n ELSE Len(writers[w].stream) IN
       writers' = [writers EXCEPT ![w].got = @ \o Take(writers[w].stream, m),
                                  ![w].stream = Drop(@, m),
                                  ![w].eof = (Len(writers[w].stream) = 0)]
    /\ UNCHANGED <<client, posts, ert, chain, exch, cors>>

\* ------------------------------------------------------------- the inbound side

Responders == {"r1", "r2"}
\* the request bodies other HTTP clients send
RequestBodies == {<<>>, <<1>>, <<2, 1>>}
NilResponder == "nil"
ResponderErrs == { [kind |-> "responder", msg |-> <<"read failed">>] }

\* the http.ResponseWriter of an exchange: the status written (0: none yet) and
\* the body written
NewResponseWriter == [status |-> 0, body |-> <<>>]

\* http.ResponseWriter.WriteHeader: the first status written stands
RW_WriteHeader(rw, code) ==
    IF rw.status = 0 THEN [rw EXCEPT !.status = code] ELSE rw

\* http.ResponseWriter.Write, reached through writerResp: a Write before any
\* WriteHeader writes the status 200 first
RW_Write(rw, b) ==
    [RW_WriteHeader(rw, StatusOK) EXCEPT !.body = @ \o b]

\* the response the server sends when the handler returns: 200 when no status
\* was written
RW_Finish(rw) ==
    Response(IF rw.status = 0 THEN StatusOK ELSE rw.status, rw.body)

\* a ServeHTTP that ignores the responder's error
ServeHTTP_Status_Never(err) == <<>>

\* a ServeHTTP that writes the 400 whatever the responder returned
ServeHTTP_Status_Always(err) == <<StatusBadRequest>>

\* a ServeHTTP that writes the 200 itself when the responder succeeded
ServeHTTP_Status_Explicit(err) ==
    IF err # NoErr THEN <<StatusBadRequest>> ELSE <<StatusOK>>

\* a ServeHTTP that writes the 400 a second time
ServeHTTP_Status_Twice(err) ==
    IF err # NoErr THEN <<StatusBadRequest, StatusBadRequest>> ELSE <<>>

\* the statuses ServeHTTP passes to w.WriteHeader once ReaderTake has returned
\* err
ServeHTTP_Status(err) ==
    IF err # NoErr THEN <<StatusBadRequest>> ELSE <<>>

RECURSIVE RW_WriteHeaders(_, _)
RW_WriteHeaders(rw, codes) ==
    IF codes = <<>> THEN rw
    ELSE RW_WriteHeaders(RW_WriteHeader(rw, Head(codes)), Tail(codes))

\* an exchange slot. origin is the writer whose POST is served (0: another HTTP
\* client); req, read, written, wrote, hdr, err and takes are history: the
\* request body, the bytes the responder has read, the bytes it passed to Write,
\* whether it called Write, the statuses ServeHTTP wrote, what ReaderTake
\* returned, and the calls of ReaderTake. pair is the reader ServeHTTP
\* passes to ReaderTake: the exchange whose request body it reads and the
\* exchange whose http.ResponseWriter its writer wraps; wr is what
\* reader.Writer() returned; rclosed, wclosed and cerr are history: whether
\* Close has been called on the reader and on its writer, and what it returned
NoExchange ==
    [pc |-> "free", origin |-> 0, ert |-> NilResponder, req |-> <<>>,
     rbody |-> <<>>, read |-> <<>>, eof |-> FALSE, gotW |-> FALSE,
     rw |-> NewResponseWriter, written |-> <<>>, wrote |-> FALSE,
     hdr |-> <<>>, err |-> NoErr, resp |-> NoResponse, takes |-> 0,
     pair |-> [r |-> 0, w |-> 0], wr |-> [w |-> 0, err |-> NoErr],
     rclosed |-> FALSE, wclosed |-> FALSE, cerr |-> NoErr]

\* a pairing whose reader is not bound to the request body
NewExchange_NoBody(origin, body, responder) ==
    [NoExchange EXCEPT !.pc = IF responder = NilResponder THEN "panicked"
                              ELSE "dispatched",
                       !.origin = origin, !.ert = responder, !.req = body,
                       !.takes = IF responder = NilResponder THEN 0 ELSE 1]

\* the pairing ServeHTTP builds: reader{r: io.ReaderOf(r.Body), w: writerResp{w}}
NewExchange(origin, body, responder) ==
    [NoExchange EXCEPT !.pc = IF responder = NilResponder THEN "panicked"
                              ELSE "dispatched",
                       !.origin = origin, !.ert = responder,
                       !.req = body, !.rbody = body,
                       !.takes = IF responder = NilResponder THEN 0 ELSE 1]

\* a Handler that keeps one response writer for all its pairings
Pairing_Shared(e) == [r |-> e, w |-> 1]

\* reader{r: io.ReaderOf(r.Body), w: writerResp{w}}, built by the call of
\* ServeHTTP for exchange e from its own arguments
Pairing(e) == [r |-> e, w |-> e]

\* reader.Writer: return x.w, nil
ReaderWriter(p) == [w |-> p.w, err |-> NoErr]

\* a ReaderChain that keeps the responder it already has
ReaderChainOf_KeepFirst(old, r) ==
    [ert |-> IF old = NilResponder THEN r ELSE old, err |-> NoErr]

\* ReaderChain: x.ert = ert; return nil
ReaderChainOf(old, r) == [ert |-> r, err |-> NoErr]

NoChain == [arg |-> NilResponder, err |-> NoErr]

Handler_ReaderChain(r) ==
    /\ ert' = ReaderChainOf(ert, r).ert
    /\ chain' = [arg |-> r, err |-> ReaderChainOf(ert, r).err]
    /\ UNCHANGED <<client, writers, posts, exch, cors>>

FreeSlot(e) ==
    /\ exch[e].pc = "free"
    /\ \A f \in ExIds : f < e => exch[f].pc # "free"

\* ServeHTTP is called for a request of another HTTP client: it builds the
\* pairing and calls x.ert.ReaderTake, which panics on a nil ert
ServeHTTP_Call(e, body) ==
    /\ FreeSlot(e)
    /\ exch' = [exch EXCEPT ![e] =
                  [NewExchange(0, body, ert) EXCEPT !.pair = Pairing(e)]]
    /\ UNCHANGED <<client, writers, posts, ert, chain, cors>>

\* ServeHTTP is called for the POST writer w has in flight
ServeHTTP_CallPost(e, w) ==
    /\ FreeSlot(e)
    /\ writers[w].pc = "posting"
    /\ writers[w].cli.addr = HandlerAddr
    /\ exch' = [exch EXCEPT ![e] =
                  [NewExchange(w, posts[w][Len(posts[w])].body, ert)
                       EXCEPT !.pair = Pairing(e)]]
    /\ writers' = [writers EXCEPT ![w].pc = "serving"]
    /\ UNCHANGED <<client, posts, ert, chain, cors>>

\* reader.Read with a buffer of n bytes
Resp_Read(e, n) ==
    /\ exch[e].pc = "dispatched"
    /\ ~exch[e].eof
    /\ LET r == exch[e].pair.r
           m == IF n < Len(exch[r].rbody) THEN n ELSE Len(exch[r].rbody) IN
       exch' = [exch EXCEPT ![e].read = @ \o Take(exch[r].rbody, m),
                            ![e].eof = (Len(exch[r].rbody) = 0),
                            ![r].rbody = Drop(@, m)]
    /\ UNCHANGED <<client, writers, posts, ert, chain, cors>>

\* reader.Writer returns x.w, nil
Resp_Writer(e) ==
    /\ exch[e].pc = "dispatched"
    /\ ~exch[e].gotW
    /\ exch' = [exch EXCEPT ![e].gotW = TRUE,
                            ![e].wr = ReaderWriter(exch[e].pair)]
    /\ UNCHANGED <<client, writers, posts, ert, chain, cors>>

\* Write on the writer reader.Writer returned
Resp_Write(e, b) ==
    /\ exch[e].pc = "dispatched"
    /\ exch[e].gotW
    /\ Len(exch[e].written) + Len(b) <= MaxWritten
    /\ exch' = [exch EXCEPT ![e].written = @ \o b,
                            ![e].wrote = TRUE,
                            ![exch[e].wr.w].rw = RW_Write(@, b)]
    /\ UNCHANGED <<client, writers, posts, ert, chain, cors>>

\* reader.Close: return nil. The exchange after the call, and the error
\* returned
ReaderClose(p) == [x |-> p, err |-> NoErr]

\* writerResp.Close: return nil
WriterRespClose(p) == [x |-> p, err |-> NoErr]

\* reader.Close
Resp_Close(e) ==
    /\ exch[e].pc = "dispatched"
    /\ exch' = [exch EXCEPT ![e] =
                  [ReaderClose(@).x EXCEPT !.rclosed = TRUE,
                                           !.cerr = ReaderClose(exch[e]).err]]
    /\ UNCHANGED <<client, writers, posts, ert, chain, cors>>

\* Close on the writer reader.Writer returned
Resp_CloseWriter(e) ==
    /\ exch[e].pc = "dispatched"
    /\ exch[e].gotW
    /\ exch' = [exch EXCEPT ![e] =
                  [WriterRespClose(@).x EXCEPT !.wclosed = TRUE,
                                               !.cerr = WriterRespClose(exch[e]).err]]
    /\ UNCHANGED <<client, writers, posts, ert, chain, cors>>

\* ReaderTake returns err, ServeHTTP writes the status for it and returns, and
\* the server completes the response
ServeHTTP_Return(e, err) ==
    /\ exch[e].pc = "dispatched"
    /\ LET rw == RW_WriteHeaders(exch[e].rw, ServeHTTP_Status(err)) IN
       exch' = [exch EXCEPT ![e].pc = "done",
                            ![e].rw = rw,
                            ![e].hdr = ServeHTTP_Status(err),
                            ![e].err = err,
                            ![e].resp = RW_Finish(rw)]
    /\ UNCHANGED <<client, writers, posts, ert, chain, cors>>

\* the response reaches the other HTTP client, or the connection of a panicked
\* handler is dropped; the pairing is gone
Exchange_End(e) ==
    /\ \/ exch[e].pc = "done" /\ exch[e].origin = 0
       \/ exch[e].pc = "panicked"
    /\ exch' = [exch EXCEPT ![e] = NoExchange]
    /\ UNCHANGED <<client, writers, posts, ert, chain, cors>>

\* the transport fails. A Handler still serving the request goes on without
\* its caller: the model stops following that call of ServeHTTP
Reader_ReturnTransportErr(w) ==
    /\ writers[w].pc \in {"posting", "serving"}
    /\ \E e \in TransportErrs, k \in 0..Len(writers[w].buf) :
           Reader_Done(w, e, NoResponse, k, NoPeer)
    /\ exch' = [e \in ExIds |->
                 IF exch[e].origin = w THEN NoExchange ELSE exch[e]]
    /\ UNCHANGED <<client, posts, ert, chain, cors>>

\* Post returns the Handler's response to writer w, and Reader() returns
Reader_ReturnHandler(w, e) ==
    /\ writers[w].pc = "serving"
    /\ exch[e].pc = "done"
    /\ exch[e].origin = w
    /\ \E k \in 0..Len(writers[w].buf) :
           Reader_Done(w, NoErr, exch[e].resp, k,
                       [served |-> TRUE, err |-> exch[e].err, eof |-> exch[e].eof,
                        read |-> exch[e].read, written |-> exch[e].written])
    /\ exch' = [exch EXCEPT ![e] = NoExchange]
    /\ UNCHANGED <<client, posts, ert, chain, cors>>

\* ------------------------------------------------------------ HandlerCORS
MethodOptions == "OPTIONS"
Methods == {MethodOptions, MethodPost, "GET"}
Origins == {"https://app.example", "*"}
\* []byte("OK")
OKBody == <<79, 75>>

Header(k, v) == [key |-> k, val |-> v]
AllowOrigin == "access-control-allow-origin"
AllowMethod == "access-control-allow-method"
AllowHeaders == "access-control-allow-headers"

\* what the wrapped handler h may do with the response
InnerHeaders == {Header("content-type", "text/plain"), Header(AllowOrigin, "*")}
InnerCodes == {StatusOK, 404}

\* what h saw when it was called
NoSeen == [method |-> "", req |-> <<>>, hdr |-> <<>>, rw |-> NewResponseWriter]

\* the request a handler made by HandlerCORS serves, and its response: the
\* header fields and the http.ResponseWriter. inner, seen, ihdr, istatus,
\* iwritten and iwrote are history: the calls of h.ServeHTTP, what h was given,
\* and the header fields, status and bytes h wrote
NoCors ==
    [pc |-> "none", origin |-> "", method |-> "", req |-> <<>>, hdr |-> <<>>,
     rw |-> NewResponseWriter, inner |-> 0, seen |-> NoSeen, ihdr |-> <<>>,
     istatus |-> 0, iwritten |-> <<>>, iwrote |-> FALSE, resp |-> NoResponse]

\* a wrapper that names the method list as the CORS protocol does
HandlerCORS_Serve_Methods(origin, c) ==
    IF c.method = MethodOptions
    THEN [c EXCEPT !.hdr = @ \o <<Header(AllowOrigin, origin),
                                  Header("access-control-allow-methods", MethodPost),
                                  Header(AllowHeaders, "content-type")>>,
                   !.rw = RW_Write(@, OKBody),
                   !.pc = "returned"]
    ELSE LET d == [c EXCEPT !.hdr = Append(@, Header(AllowOrigin, origin))] IN
         [d EXCEPT !.pc = "inner", !.inner = @ + 1,
                   !.seen = [method |-> d.method, req |-> d.req,
                             hdr |-> d.hdr, rw |-> d.rw]]

\* a wrapper that sets the three header fields whatever the method
HandlerCORS_Serve_AllHeaders(origin, c) ==
    LET d == [c EXCEPT !.hdr = @ \o <<Header(AllowOrigin, origin),
                                      Header(AllowMethod, MethodPost),
                                      Header(AllowHeaders, "content-type")>>] IN
    IF c.method = MethodOptions
    THEN [d EXCEPT !.rw = RW_Write(@, OKBody), !.pc = "returned"]
    ELSE [d EXCEPT !.pc = "inner", !.inner = @ + 1,
                   !.seen = [method |-> d.method, req |-> d.req,
                             hdr |-> d.hdr, rw |-> d.rw]]

\* the function HandlerCORS returns, up to its return or its call of
\* h.ServeHTTP(w, r)
HandlerCORS_Serve(origin, c) ==
    IF c.method = MethodOptions
    THEN [c EXCEPT !.hdr = @ \o <<Header(AllowOrigin, origin),
                                  Header(AllowMethod, MethodPost),
                                  Header(AllowHeaders, "content-type")>>,
                   !.rw = RW_Write(@, OKBody),
                   !.pc = "returned"]
    ELSE LET d == [c EXCEPT !.hdr = Append(@, Header(AllowOrigin, origin))] IN
         [d EXCEPT !.pc = "inner", !.inner = @ + 1,
                   !.seen = [method |-> d.method, req |-> d.req,
                             hdr |-> d.hdr, rw |-> d.rw]]

\* HandlerCORS(origin, h)
HandlerCORS(origin) ==
    /\ cors.pc = "none"
    /\ cors' = [NoCors EXCEPT !.pc = "ready", !.origin = origin]
    /\ UNCHANGED <<client, writers, posts, ert, chain, exch>>

\* the wrapper is called with a request
CORS_ServeHTTP(method, body) ==
    /\ cors.pc = "ready"
    /\ LET c == HandlerCORS_Serve(cors.origin,
                                  [cors EXCEPT !.method = method, !.req = body]) IN
       cors' = IF c.pc = "returned"
               THEN [c EXCEPT !.pc = "done", !.resp = RW_Finish(c.rw)]
               ELSE c
    /\ UNCHANGED <<client, writers, posts, ert, chain, exch>>

\* h adds a header field; one added after the status is written is not sent
Inner_Header(h) ==
    /\ cors.pc = "inner"
    /\ cors.rw.status = 0
    /\ cors.ihdr = <<>>
    /\ cors' = [cors EXCEPT !.hdr = Append(@, h), !.ihdr = Append(@, h)]
    /\ UNCHANGED <<client, writers, posts, ert, chain, exch>>

\* h writes a status; one written after the first is dropped
Inner_WriteHeader(code) ==
    /\ cors.pc = "inner"
    /\ cors.rw.status = 0
    /\ cors' = [cors EXCEPT !.rw = RW_WriteHeader(@, code), !.istatus = code]
    /\ UNCHANGED <<client, writers, posts, ert, chain, exch>>

Inner_Write(b) ==
    /\ cors.pc = "inner"
    /\ Len(cors.iwritten) + Len(b) <= MaxWritten
    /\ cors' = [cors EXCEPT !.rw = RW_Write(@, b), !.iwritten = @ \o b,
                            !.iwrote = TRUE]
    /\ UNCHANGED <<client, writers, posts, ert, chain, exch>>

\* h.ServeHTTP returns, and the wrapper with it
Inner_Return ==
    /\ cors.pc = "inner"
    /\ cors' = [cors EXCEPT !.pc = "done", !.resp = RW_Finish(cors.rw)]
    /\ UNCHANGED <<client, writers, posts, ert, chain, exch>>

\* the response is sent
CORS_End ==
    /\ cors.pc = "done"
    /\ cors' = [NoCors EXCEPT !.pc = "ready", !.origin = cors.origin]
    /\ UNCHANGED <<client, writers, posts, ert, chain, exch>>

\* no Client made yet, and the zero Handler, serving nothing
Init ==
    /\ client = NoClient
    /\ writers = [w \in WriterIds |-> NoWriter]
    /\ posts = [w \in WriterIds |-> <<>>]
    /\ ert = NilResponder
    /\ chain = NoChain
    /\ exch = [e \in ExIds |-> NoExchange]
    /\ cors = NoCors

ServerSteps(E, R) ==
    \/ \E r \in R : Handler_ReaderChain(r)
    \/ \E e \in E, n \in 1..MaxLen : Resp_Read(e, n)
    \/ \E e \in E : Resp_Writer(e)
    \/ \E e \in E, b \in Msgs(MaxLen) : Resp_Write(e, b)
    \/ \E e \in E, err \in {NoErr} \cup ResponderErrs : ServeHTTP_Return(e, err)
    \/ \E e \in E : Exchange_End(e)

\* one request of another HTTP client at a time
ServerNext ==
    \/ \E e \in {1}, b \in RequestBodies : ServeHTTP_Call(e, b)
    \/ ServerSteps({1}, Responders)
    \/ Resp_Close(1)
    \/ Resp_CloseWriter(1)

\* requests of other HTTP clients, served concurrently by one Handler
ServersNext ==
    \/ \E e \in ExIds, b \in RequestBodies : ServeHTTP_Call(e, b)
    \/ ServerSteps(ExIds, {"r1"})

ClientSteps(W, A, C) ==
    \/ \E a \in A, c \in C : ClientMake(a, c)
    \/ \E w \in W : Writer(w)
    \/ \E w \in W, b \in Msgs(MaxLen) : Write(w, b)
    \/ \E w \in W : Reader_Call(w)
    \/ \E w \in W : Reader_ReturnTransportErr(w)
    \/ \E w \in W, n \in 1..MaxLen : Reader_Read(w, n)

\* one writer of the Client
ClientNext ==
    \/ ClientSteps({1}, Addrs, {NilClient, CustomClient})
    \/ \E w \in {1} : Reader_ReturnRemote(w)
    \/ Close(1)

\* one writer of a Client at the Handler's address, whose POSTs the Handler
\* serves with the responder chained to it
Next ==
    \/ ClientSteps({1}, {HandlerAddr}, {NilClient})
    \/ \E w \in {1}, e \in {1} : ServeHTTP_CallPost(e, w)
    \/ ServerSteps({1}, {"r1"})
    \/ \E w \in {1}, e \in {1} : Reader_ReturnHandler(w, e)

\* a Client and the Handler at its address
Spec == Init /\ [][Next]_vars

\* the round trip of a writer whose caller and whose responder call Close on
\* what they hold, with a responder that reads the request in one Read
CloseNext ==
    \/ ClientMake(HandlerAddr, NilClient)
    \/ Writer(1)
    \/ \E b \in Msgs(MaxLen) : Write(1, b)
    \/ Close(1)
    \/ Reader_Call(1)
    \/ Handler_ReaderChain("r1")
    \/ ert # NilResponder /\ ServeHTTP_CallPost(1, 1)
    \/ Resp_Read(1, MaxLen)
    \/ Resp_Close(1)
    \/ Resp_Writer(1)
    \/ \E b \in Msgs(MaxLen) : Resp_Write(1, b)
    \/ Resp_CloseWriter(1)
    \/ \E err \in {NoErr} \cup ResponderErrs : ServeHTTP_Return(1, err)
    \/ Reader_ReturnHandler(1, 1)

SpecClose == Init /\ [][CloseNext]_vars

\* the outbound side alone, against an environment that answers its POSTs
SpecClient == Init /\ [][ClientNext]_vars

\* the inbound side alone, serving the requests of other HTTP clients
\* the writers of one Client, used concurrently
ClientsNext ==
    \/ \E c \in {NilClient, CustomClient} : ClientMake(RemoteAddr, c)
    \/ \E w \in WriterIds : Writer(w)
    \/ \E w \in WriterIds, b \in Msgs(MaxLen) : Write(w, b)
    \/ \E w \in WriterIds : Reader_Call(w)
    \/ \E w \in WriterIds : Reader_ReturnRemote(w)

SpecClients == Init /\ [][ClientsNext]_vars

SpecServer == Init /\ [][ServerNext]_vars

\* the responder of every request returns
SpecServerLive ==
    /\ SpecServer
    /\ WF_vars(\E err \in {NoErr} \cup ResponderErrs : ServeHTTP_Return(1, err))

SpecServers == Init /\ [][ServersNext]_vars

\* the Handler re-chained between requests whose responders return at once
ChainNext ==
    \/ \E r \in Responders : Handler_ReaderChain(r)
    \/ \E e \in ExIds, b \in RequestBodies : ServeHTTP_Call(e, b)
    \/ \E e \in ExIds, err \in {NoErr} \cup ResponderErrs : ServeHTTP_Return(e, err)
    \/ \E e \in ExIds : Exchange_End(e)

SpecChain == Init /\ [][ChainNext]_vars

\* a wrapped handler and its requests
CORSNext ==
    \/ \E o \in Origins : HandlerCORS(o)
    \/ \E m \in Methods, b \in RequestBodies : CORS_ServeHTTP(m, b)
    \/ \E h \in InnerHeaders : Inner_Header(h)
    \/ \E c \in InnerCodes : Inner_WriteHeader(c)
    \/ \E b \in Msgs(MaxLen) : Inner_Write(b)
    \/ Inner_Return
    \/ CORS_End

SpecCORS == Init /\ [][CORSNext]_vars

\* ------------------------------------------------------------------ properties

Suffix(s, n) == SubSeq(s, Len(s) - n + 1, Len(s))
\* the last Reader() call on w has returned
Returned(w) == writers[w].made /\ writers[w].pc = "idle" /\ writers[w].calls > 0
\* ServeHTTP has returned for e
Served(e) == exch[e].pc = "done"

\* C1: the body of the POST sent by a writer's first Reader() call is the
\* concatenation, in call order, of the byte slices written before that call
C1_FirstBodyIsWrites ==
    \A w \in WriterIds :
        Len(posts[w]) >= 1 =>
            posts[w][1].body = Take(writers[w].hist, posts[w][1].nw)

C1_Witness ==
    \E w \in WriterIds :
        /\ Len(posts[w]) >= 1
        /\ posts[w][1].body = <<2, 1>>
        /\ Len(writers[w].hist) = 2

\* C2 as stated: whenever the responder returns an error the response is a 400
\* with an empty body, whatever the responder wrote before
C2_Original ==
    \A e \in ExIds :
        Served(e) /\ exch[e].err # NoErr =>
            exch[e].resp.code = StatusBadRequest /\ exch[e].resp.body = <<>>

\* C2 amended: when the responder returns an error, the response is a 400 with
\* an empty body if the responder made no Write on the paired writer, and a 200
\* carrying the bytes written if it did
C2_ErrorResponse ==
    \A e \in ExIds :
        Served(e) /\ exch[e].err # NoErr =>
            IF exch[e].wrote
            THEN exch[e].resp.code = StatusOK /\ exch[e].resp.body = exch[e].written
            ELSE exch[e].resp.code = StatusBadRequest /\ exch[e].resp.body = <<>>

C2_Witness ==
    \E e \in ExIds :
        /\ Served(e) /\ exch[e].err # NoErr
        /\ exch[e].gotW /\ ~exch[e].wrote
        /\ exch[e].resp.code = StatusBadRequest

\* C3: the response is a 400 exactly when the responder returned an error
\* without a Write on the paired writer; in every other case it is a 200
\* carrying the bytes written by the time ReaderTake returned
C3_BadRequestExactly ==
    \A e \in ExIds :
        Served(e) =>
            /\ exch[e].resp.code = StatusBadRequest
                   <=> (exch[e].err # NoErr /\ ~exch[e].wrote)
            /\ ~(exch[e].err # NoErr /\ ~exch[e].wrote) =>
                   /\ exch[e].resp.code = StatusOK
                   /\ exch[e].resp.status = "200 OK"
                   /\ exch[e].resp.body = exch[e].written

C3_Witness ==
    \E e \in ExIds :
        /\ Served(e) /\ exch[e].err # NoErr /\ exch[e].wrote
        /\ exch[e].resp.code = StatusOK
        /\ exch[e].resp.body = <<1, 2>>

\* C4: when the responder returns no error, ServeHTTP writes no status of its
\* own, the response is a 200 and its body is the bytes the responder wrote
\* through the paired writer, in write order
C4_SuccessResponse ==
    \A e \in ExIds :
        Served(e) /\ exch[e].err = NoErr =>
            /\ exch[e].hdr = <<>>
            /\ exch[e].resp.code = StatusOK
            /\ exch[e].resp.body = exch[e].written

C4_Witness ==
    \E e \in ExIds :
        /\ Served(e) /\ exch[e].err = NoErr
        /\ exch[e].written = <<2, 1>>
        /\ exch[e].resp.body = <<2, 1>>

\* C5: when the endpoint answers with a status other than 200, Reader() returns
\* an error whose text holds the response's status text, and no reader: nothing
\* of the response body can be read
C5_Non200IsError ==
    \A w \in WriterIds :
        Returned(w) /\ writers[w].out.err = NoErr
                    /\ writers[w].out.resp.code # StatusOK =>
            /\ ~writers[w].ret.reader
            /\ writers[w].ret.err # NoErr
            /\ \E i \in DOMAIN writers[w].ret.err.msg :
                   writers[w].ret.err.msg[i] = writers[w].out.resp.status
            /\ writers[w].stream = <<>>
            /\ writers[w].got = <<>>

C5_Witness ==
    \E w \in WriterIds :
        /\ Returned(w) /\ writers[w].out.err = NoErr
        /\ writers[w].out.resp.code = 201
        /\ writers[w].out.resp.body # <<>>
        /\ writers[w].ret.err.msg = <<"http response status ", "201 Created">>

\* C6: when the endpoint answers with status 200, Reader() returns no error and
\* a reader whose successive reads yield the response body, in order, whole
\* and once
C6_ReaderYieldsBody ==
    \A w \in WriterIds :
        Returned(w) /\ writers[w].out.err = NoErr
                    /\ writers[w].out.resp.code = StatusOK =>
            /\ writers[w].ret.reader
            /\ writers[w].ret.err = NoErr
            /\ writers[w].got \o writers[w].stream = writers[w].out.resp.body
            /\ writers[w].eof => writers[w].got = writers[w].out.resp.body

C6_Witness ==
    \E w \in WriterIds :
        /\ Returned(w) /\ writers[w].out.resp.code = StatusOK
        /\ writers[w].eof
        /\ writers[w].got = <<2, 1>>

\* C7: a step is a Reader() call exactly when it issues a POST, and it issues
\* one: to the writer's address, with content type application/octet-stream.
\* No other step (ClientMake, Writer, Write, Close, a return, a read) issues a
\* request
C7_OnePostPerReader ==
    [][\A w \in WriterIds :
          IF writers[w].pc = "idle" /\ writers'[w].pc = "posting"
          THEN /\ Len(posts'[w]) = Len(posts[w]) + 1
               /\ Take(posts'[w], Len(posts[w])) = posts[w]
               /\ LET r == posts'[w][Len(posts'[w])] IN
                      /\ r.method = "POST"
                      /\ r.ctype = "application/octet-stream"
                      /\ r.addr = writers[w].cli.addr
                      /\ r.addr = client.addr
          ELSE posts'[w] = posts[w]]_vars

C7_Witness ==
    \E w \in WriterIds :
        /\ Len(posts[w]) = 2
        /\ writers[w].calls = 2
        /\ Len(writers[w].hist) > 0

\* C8: when the POST fails in the transport, Reader() returns the transport's
\* error as it is and no reader, and the call has issued one request only
C8_TransportErrVerbatim ==
    \A w \in WriterIds :
        Returned(w) /\ writers[w].out.err # NoErr =>
            /\ writers[w].ret.err = writers[w].out.err
            /\ ~writers[w].ret.reader
            /\ writers[w].stream = <<>>
            /\ Len(posts[w]) = writers[w].calls

C8_Witness ==
    \E w \in WriterIds :
        /\ Returned(w)
        /\ writers[w].ret.err = [kind |-> "transport", msg |-> <<"no such host">>]
        /\ writers[w].calls = 1

\* C9: round trip. When the Handler serves the POST of a writer and its
\* responder reads the reader to the end, writes R and returns no error, the
\* responder has read the request body M (all that was written, for the
\* writer's first call) and the reader Reader() returns yields R
C9_RoundTrip ==
    \A w \in WriterIds :
        LET x == writers[w] IN
        Returned(w) /\ x.peer.served /\ x.peer.err = NoErr /\ x.peer.eof =>
            /\ x.peer.read = posts[w][x.calls].body
            /\ x.calls = 1 => x.peer.read = Take(x.hist, posts[w][1].nw)
            /\ x.ret.reader /\ x.ret.err = NoErr
            /\ x.got \o x.stream = x.peer.written
            /\ x.eof => x.got = x.peer.written

C9_Witness ==
    \E w \in WriterIds :
        LET x == writers[w] IN
        /\ Returned(w) /\ x.peer.served /\ x.peer.err = NoErr /\ x.peer.eof
        /\ x.calls = 1
        /\ x.hist = <<1, 2>> /\ x.peer.read = <<1, 2>>
        /\ x.peer.written = <<2, 1>> /\ x.eof /\ x.got = <<2, 1>>

\* C10 as stated: bytes passed to Write after a writer's first Reader() call
\* appear in the body of no request
C10_Original ==
    \A w \in WriterIds :
        \A i \in 1..Len(posts[w]) :
            Len(posts[w][i].body) > 0 => posts[w][i].nw <= posts[w][1].nw

\* C10 amended: the body of a request is the tail of what had been written
\* when its Reader() call was made, so bytes written after a Reader() call are
\* not in the request of that call; they stay buffered and are all in the body
\* of the writer's next request
C10_LaterWritesGoToNextPost ==
    \A w \in WriterIds :
        \A i \in 1..Len(posts[w]) :
            LET r == posts[w][i] IN
            /\ Len(r.body) <= r.nw
            /\ r.body = Suffix(Take(writers[w].hist, r.nw), Len(r.body))
            /\ i > 1 => Len(r.body) >= r.nw - posts[w][i - 1].nw

C10_Witness ==
    \E w \in WriterIds :
        /\ Len(posts[w]) = 2
        /\ posts[w][1].nw = 1
        /\ posts[w][2].nw = 2
        /\ posts[w][1].body = <<1>>
        /\ posts[w][2].body = <<2>>

\* C11: on a zero Handler every call of ReaderChain and of ServeHTTP
\* completes normally, ServeHTTP before any ReaderChain included: no call of
\* ServeHTTP panics
C11_ZeroValueUsable ==
    \A e \in ExIds : exch[e].pc # "panicked"

\* C12: ReaderChain returns no error and stores its argument in place of the
\* responder stored before, and a call of ServeHTTP invokes the responder of
\* the last ReaderChain call
C12_LastChainWins ==
    /\ [](chain.err = NoErr /\ ert = chain.arg)
    /\ [][\A e \in ExIds :
             (exch[e].pc = "free" /\ exch'[e].pc # "free")
                 => exch'[e].ert = chain.arg]_vars

C12_Witness ==
    /\ exch[1].pc = "done" /\ exch[1].ert = "r1"
    /\ exch[2].pc = "dispatched" /\ exch[2].ert = "r2"
    /\ chain.arg = "r2"

\* C13: an OPTIONS request never reaches the wrapped handler, and its response
\* has access-control-allow-origin with the configured origin,
\* access-control-allow-method with POST, access-control-allow-headers with
\* content-type, the status 200 and the body "OK"
C13_Preflight ==
    (cors.pc = "done" /\ cors.method = MethodOptions) =>
        /\ cors.inner = 0
        /\ cors.seen = NoSeen
        /\ cors.hdr = <<Header("access-control-allow-origin", cors.origin),
                        Header("access-control-allow-method", "POST"),
                        Header("access-control-allow-headers", "content-type")>>
        /\ cors.resp = Response(StatusOK, OKBody)

C13_Witness ==
    /\ cors.pc = "done"
    /\ cors.method = MethodOptions
    /\ cors.origin = "https://app.example"
    /\ cors.req = <<2, 1>>
    /\ cors.resp.body = OKBody

\* C14: with any other method the wrapped handler is called once, with the
\* same request and with access-control-allow-origin, and nothing else, set and
\* nothing written; the header fields, status and body of the response are
\* that field and what the wrapped handler wrote
C14_Delegates ==
    (cors.pc \in {"inner", "done"} /\ cors.method # MethodOptions) =>
        /\ cors.inner = 1
        /\ cors.seen = [method |-> cors.method, req |-> cors.req,
                        hdr |-> <<Header("access-control-allow-origin", cors.origin)>>,
                        rw |-> NewResponseWriter]
        /\ cors.hdr = cors.seen.hdr \o cors.ihdr
        /\ cors.rw.body = cors.iwritten
        /\ cors.rw.status = IF cors.istatus # 0 THEN cors.istatus
                            ELSE IF cors.iwrote THEN StatusOK ELSE 0
        /\ cors.pc = "done" => cors.resp = RW_Finish(cors.rw)

C14_Witness ==
    /\ cors.pc = "done"
    /\ cors.method = MethodPost
    /\ cors.req = <<1>>
    /\ cors.ihdr = <<Header("content-type", "text/plain")>>
    /\ cors.resp = Response(404, <<2, 1>>)

\* C15: a call of ServeHTTP on a Handler with a responder calls ReaderTake
\* once; until ReaderTake returns, the response holds what the responder
\* wrote and nothing else; when it has returned, ServeHTTP has called
\* WriteHeader(400) once if it returned an error and not at all otherwise, and
\* has returned; the request ends there, in success or in failure, and is not
\* handled again
C15_RequestLifecycle ==
    /\ [](\A e \in ExIds :
            /\ exch[e].pc = "dispatched" =>
                   /\ exch[e].takes = 1
                   /\ exch[e].hdr = <<>>
                   /\ exch[e].rw.body = exch[e].written
                   /\ exch[e].rw.status = IF exch[e].wrote THEN StatusOK ELSE 0
                   /\ exch[e].resp = NoResponse
            /\ exch[e].pc = "done" =>
                   /\ exch[e].takes = 1
                   /\ exch[e].hdr = IF exch[e].err # NoErr
                                    THEN <<StatusBadRequest>> ELSE <<>>
                   /\ exch[e].rw.body = exch[e].written
                   /\ exch[e].resp # NoResponse)
    /\ [][\A e \in ExIds :
             /\ exch[e].pc = "dispatched" => exch'[e].pc \in {"dispatched", "done"}
             /\ exch[e].pc = "done" =>
                    \/ exch'[e] = exch[e]
                    \/ exch'[e].pc = "free"]_vars
    /\ \A e \in ExIds : exch[e].pc = "dispatched" ~> exch[e].pc = "done"

C15_Witness ==
    /\ exch[1].pc = "done"
    /\ exch[1].takes = 1
    /\ exch[1].err # NoErr
    /\ exch[1].hdr = <<StatusBadRequest>>
    /\ exch[1].read = <<2, 1>>
    /\ exch[1].written = <<>>

\* C16: when calls of ServeHTTP on one Handler overlap, the reader of each
\* reads the body of its own request only, Writer() returns without error the
\* writer of the response of that same request, the response of each request
\* is the one it has when handled alone, and no step of ServeHTTP changes the
\* Handler
C16_PairingPerRequest ==
    /\ [](\A e \in ExIds :
            exch[e].pc \in {"dispatched", "done"} =>
                /\ exch[e].pair = [r |-> e, w |-> e]
                /\ exch[e].read \o exch[e].rbody = exch[e].req
                /\ exch[e].gotW => exch[e].wr = [w |-> e, err |-> NoErr]
                /\ exch[e].rw.body = exch[e].written
                /\ exch[e].pc = "done" =>
                       exch[e].resp =
                           Response(IF exch[e].err # NoErr /\ ~exch[e].wrote
                                    THEN StatusBadRequest ELSE StatusOK,
                                    exch[e].written))
    /\ [][exch' # exch => ert' = ert]_vars

C16_Witness ==
    /\ exch[1].pc = "dispatched" /\ exch[2].pc = "dispatched"
    /\ exch[1].req = <<1>> /\ exch[1].read = <<1>> /\ exch[1].written = <<2>>
    /\ exch[2].req = <<2, 1>> /\ exch[2].read = <<2, 1>>
    /\ exch[2].written = <<1, 1>>

\* C17: a Client stays as ClientMake made it. Each of its writers holds a copy
\* of it and starts with an empty buffer; the buffer of a writer and the body
\* of each of its requests hold bytes passed to Write on that writer, and of no
\* other; every request goes to the address given to ClientMake through the
\* transport handle given to it, or through http.DefaultClient when that was
\* nil
C17_WritersIndependent ==
    /\ [](\A w \in WriterIds :
            writers[w].made =>
                /\ client.made
                /\ writers[w].cli = client
                /\ writers[w].buf = Suffix(writers[w].hist, Len(writers[w].buf))
                /\ \A i \in 1..Len(posts[w]) :
                       /\ posts[w][i].addr = client.given.addr
                       /\ posts[w][i].cli = IF client.given.cli = NilClient
                                            THEN DefaultClient
                                            ELSE client.given.cli
                       /\ Len(posts[w][i].body) <= posts[w][i].nw
                       /\ posts[w][i].body =
                              Suffix(Take(writers[w].hist, posts[w][i].nw),
                                     Len(posts[w][i].body)))
    /\ [][client.made => client' = client]_vars
    /\ [][\A w \in WriterIds :
             (~writers[w].made /\ writers'[w].made) =>
                 writers'[w].buf = <<>> /\ writers'[w].hist = <<>>]_vars

C17_Witness ==
    /\ client.given.cli = NilClient
    /\ writers[1].hist = <<1>> /\ writers[2].hist = <<2>>
    /\ Len(posts[1]) = 1 /\ posts[1][1].body = <<1>>
    /\ Len(posts[2]) = 1 /\ posts[2][1].body = <<2>>
    /\ posts[2][1].cli = DefaultClient
    /\ writers[1].pc = "posting" /\ writers[2].pc = "posting"

\* C18: Close on an outbound writer, on an inbound reader and on an inbound
\* response writer returns no error and changes nothing: no request is sent,
\* no status and no body is written, and the buffer and the pairing are as
\* they were, whenever in the life of the object it is called
C18_CloseIsNoOp ==
    /\ [](/\ \A w \in WriterIds : writers[w].cerr = NoErr
          /\ \A e \in ExIds : exch[e].cerr = NoErr)
    /\ [][/\ \A w \in WriterIds :
               (~writers[w].closed /\ writers'[w].closed) =>
                   /\ writers'[w] = [writers[w] EXCEPT !.closed = TRUE]
                   /\ posts' = posts
                   /\ exch' = exch
          /\ \A e \in ExIds :
               (~exch[e].rclosed /\ exch'[e].rclosed) =>
                   /\ exch'[e] = [exch[e] EXCEPT !.rclosed = TRUE]
                   /\ posts' = posts
                   /\ writers' = writers
          /\ \A e \in ExIds :
               (~exch[e].wclosed /\ exch'[e].wclosed) =>
                   /\ exch'[e] = [exch[e] EXCEPT !.wclosed = TRUE]
                   /\ posts' = posts
                   /\ writers' = writers]_vars

C18_Witness ==
    /\ writers[1].closed /\ writers[1].hist = <<1, 2>>
    /\ Len(posts[1]) = 1 /\ posts[1][1].body = <<1, 2>>
    /\ exch[1].rclosed /\ exch[1].wclosed
    /\ exch[1].pc = "done"
    /\ exch[1].read = <<1, 2>>
    /\ exch[1].resp = Response(StatusOK, <<2>>)

\* C19: no buffered byte is sent twice: the body of a request is the bytes
\* written that no earlier request of the writer has sent. A Reader() call
\* made after one whose POST read the whole buffer issues a new POST, whose body
\* is the bytes written since that call, and is empty when there are none
C19_NoByteSentTwice ==
    \A w \in WriterIds :
        /\ Len(posts[w]) = writers[w].calls
        /\ \A i \in 1..Len(posts[w]) :
               LET p == posts[w][i] IN
               /\ p.sent <= p.nw
               /\ p.body = SubSeq(writers[w].hist, p.sent + 1, p.nw)
               /\ (i > 1 /\ p.sent = posts[w][i - 1].nw) =>
                      /\ Len(p.body) = p.nw - posts[w][i - 1].nw
                      /\ p.body = Suffix(Take(writers[w].hist, p.nw), Len(p.body))

C19_Witness ==
    /\ Len(posts[1]) = 2
    /\ posts[1][1].body = <<1>> /\ posts[1][1].sent = 0
    /\ posts[1][2].body = <<2>> /\ posts[1][2].sent = 1
    /\ writers[1].hist = <<1, 2>>
    /\ writers[1].nsent = 2

\* C20: when the POST is answered with a status other than 200, Reader()
\* returns an error and no reader: the body of the response is not read, not
\* handed to the caller and not closed, so it stays open; and on no path does
\* Reader() close the body of a response
C20_RejectedBodyStaysOpen ==
    \A w \in WriterIds :
        /\ writers[w].respBody # "closed"
        /\ (Returned(w) /\ writers[w].out.err = NoErr
                /\ writers[w].out.resp.code # StatusOK) =>
               /\ ~writers[w].ret.reader
               /\ writers[w].ret.err # NoErr
               /\ writers[w].stream = <<>>
               /\ writers[w].got = <<>>
               /\ writers[w].respBody = "open"

C20_Witness ==
    /\ Returned(1)
    /\ writers[1].out.resp = Response(404, <<1, 2>>)
    /\ writers[1].respBody = "open"
    /\ ~writers[1].ret.reader
====
